---- MODULE Spec2Model ----
(***************************************************************************)
(* DQN training loop of Sem54/02_dqn_pong.py: the replay buffer            *)
(* (ExperienceBuffer), the agent (Agent.play_step), the Bellman target of  *)
(* calc_loss and the __main__ training loop.                               *)
(*                                                                         *)
(* Numbers.  Rewards and Q-values are integers.  GAMMA = 0.99 is the       *)
(* fraction GAMMA_NUM / GAMMA_DEN, so a Bellman target is kept as its      *)
(* numerator over GAMMA_DEN.  A mean is kept as the pair (sum, count).     *)
(* The hyper-parameters of lines 28-39 are scaled down so that warm-up,    *)
(* training, synchronisation, eviction and convergence all happen within   *)
(* a few ticks; the scaled values keep the order relations of the shipped  *)
(* ones: BATCH_SIZE < REPLAY_START_SIZE = REPLAY_SIZE, SYNC_TARGET_FRAMES  *)
(* divides REPLAY_START_SIZE and is smaller than it.                       *)
(***************************************************************************)
EXTENDS Integers, Sequences, FiniteSets, TLC

VARIABLES
    capacity,       \* ExperienceBuffer: maxlen of the deque
    buffer,         \* ExperienceBuffer.buffer, oldest first
    batch,          \* what the last sample call returned (NoBatch: nothing)
    err,            \* the exception the last call raised (NoErr: none)
    lastOp,         \* the last call made on the buffer: [op, n]
    appended,       \* every experience passed to append so far, in order
    state,          \* Agent.state
    total_reward,   \* Agent.total_reward
    done_reward,    \* what the last play_step returned: <<>> is None, <<r>> is r
    env,            \* the environment: [obs, episode, fresh]
    step_out,       \* what the last env.step returned
    net,            \* parameters of the online network
    tgt_net,        \* parameters of the target network
    expected,       \* calc_loss: expected_state_action_values (numerators)
    loss_t,         \* calc_loss: the loss, as [num, den]
    frame_idx,      \* __main__: global step counter
    epsilon,        \* __main__: exploration probability (numerator)
    total_rewards,  \* __main__: rewards of the completed episodes
    best_m_reward,  \* __main__: <<>> is None, <<m>> the best trailing mean
    saved,          \* __main__: parameters written by torch.save, in order
    events,         \* what the last tick of the loop did, in order
    hyper,          \* __main__: the globals [batch_size, decay] of lines 31, 37
    pc              \* __main__: "loop", "done" (after break) or "crashed"

vars == <<capacity, buffer, batch, err, lastOp, appended, state, total_reward,
          done_reward, env, step_out, net, tgt_net, expected, loss_t,
          frame_idx, epsilon, total_rewards, best_m_reward, saved, events,
          hyper, pc>>

bufVars   == <<capacity, buffer, batch, err, lastOp, appended>>
agentVars == <<state, total_reward, done_reward, env, step_out>>
netVars   == <<net, tgt_net>>
lossVars  == <<expected, loss_t>>
loopVars  == <<frame_idx, epsilon, total_rewards, best_m_reward, saved, events,
               hyper, pc>>

----------------------------------------------------------------------------
(* Hyper-parameters, lines 28-39 (scaled).                                 *)

MEAN_REWARD_BOUND == 2
GAMMA_NUM == 99
GAMMA_DEN == 100
BATCH_SIZE == 2
REPLAY_SIZE == 4
SYNC_TARGET_FRAMES == 2
REPLAY_START_SIZE == 4
EPSILON_DECAY_LAST_FRAME == 5
EPSILON_START_PCT == 100
EPSILON_FINAL_PCT == 1
\* total_rewards[-100:], line 178
MEAN_WINDOW == 2

(* Bounds of the model.                                                    *)
MaxCapacity == 3
MaxAppends == 4
MaxSample == 3
MaxSteps == 3
MaxLossBatch == 2
MaxFrames == 6

----------------------------------------------------------------------------
(* Values.                                                                 *)

\* Parameter settings of a network; Q(p, s, a) is the value a network with
\* parameters p gives action a in state s.
Nets == {0, 1, 2}
Q(p, s, a) == (((p + 1) * (s + 2 * a + 1)) % 5) - 2

\* An environment, as the agent sees it: its actions, the observations
\* reset and step return, its rewards.
AgentWorld == [actions |-> {0, 1}, resetObs |-> {0}, stepObs |-> {1, 2},
               rewards |-> {0, 1}]
LoopWorld  == [actions |-> {0}, resetObs |-> {0}, stepObs |-> {1},
               rewards |-> {1}]
LossWorld  == [actions |-> {0, 1}, resetObs |-> {0}, stepObs |-> {0, 1, 2},
               rewards |-> {-1, 1}]

\* Experience, lines 43-45
Experience(s, a, r, d, ns) ==
    [state |-> s, action |-> a, reward |-> r, done |-> d, new_state |-> ns]

NoErr == [type |-> "", raisedBy |-> ""]
NoBatch == [states |-> <<>>, actions |-> <<>>, rewards |-> <<>>,
            dones |-> <<>>, next_states |-> <<>>]
NoOp == [op |-> "", n |-> 0]
NoLoss == [num |-> 0, den |-> 1]
NoStep == [action |-> 0, new_state |-> 0, reward |-> 0, terminated |-> FALSE,
           truncated |-> FALSE]

RECURSIVE SumSeq(_)
SumSeq(s) == IF s = <<>> THEN 0 ELSE Head(s) + SumSeq(Tail(s))

Injective(f) == \A i, j \in DOMAIN f : f[i] = f[j] => i = j

----------------------------------------------------------------------------
(* ExperienceBuffer, lines 48-71.                                          *)

\* a bounded append that refuses the new item when full instead of evicting
DequeAppendKeepsOldest(buf, cap, x) ==
    IF Len(buf) < cap THEN Append(buf, x) ELSE buf

\* an append without a bound
DequeAppendUnbounded(buf, cap, x) == Append(buf, x)

\* an append that starts over when the deque is full
DequeAppendClearsWhenFull(buf, cap, x) ==
    IF Len(buf) < cap THEN Append(buf, x) ELSE <<x>>

\* collections.deque(maxlen=cap).append(x): the oldest item is dropped
\* when the deque is full; a deque of maxlen 0 keeps nothing.
DequeAppend(buf, cap, x) ==
    IF cap = 0 THEN <<>>
    ELSE IF Len(buf) < cap THEN Append(buf, x)
    ELSE Append(Tail(buf), x)

\* np.random.choice(m, n, replace=False) raises ValueError when n > m
ChoiceRaises(m, n) == n > m

\* np.random.choice(m, n, replace=True)
ChoiceWithReplacement(m, n) == [1..n -> 0..(m - 1)]

\* np.random.choice(m, n, replace=False): n distinct indices of 0..m-1,
\* in any order
Choice(m, n) == {idx \in [1..n -> 0..(m - 1)] : Injective(idx)}

\* np.array(dones, dtype=np.uint8)
ToUint8(d) == IF d THEN 1 ELSE 0

\* an unzip whose next_states column follows the indices in reverse
UnzipMisaligned(buf, idx) ==
    LET n == Len(idx)
    IN  IF n = 0
        THEN [err |-> [type |-> "ValueError", raisedBy |-> "unpack"],
              batch |-> NoBatch]
        ELSE [err |-> NoErr,
              batch |-> [states      |-> [i \in 1..n |-> buf[idx[i] + 1].state],
                         actions     |-> [i \in 1..n |-> buf[idx[i] + 1].action],
                         rewards     |-> [i \in 1..n |-> buf[idx[i] + 1].reward],
                         dones       |-> [i \in 1..n |-> ToUint8(buf[idx[i] + 1].done)],
                         next_states |-> [i \in 1..n |-> buf[idx[n + 1 - i] + 1].new_state]]]

\* lines 66-71: buffer[idx] for each index, unzipped into five arrays.
\* zip(*[]) yields nothing, so unpacking into five names raises ValueError.
Unzip(buf, idx) ==
    IF Len(idx) = 0
    THEN [err |-> [type |-> "ValueError", raisedBy |-> "unpack"],
          batch |-> NoBatch]
    ELSE [err |-> NoErr,
          batch |-> [states      |-> [i \in 1..Len(idx) |-> buf[idx[i] + 1].state],
                     actions     |-> [i \in 1..Len(idx) |-> buf[idx[i] + 1].action],
                     rewards     |-> [i \in 1..Len(idx) |-> buf[idx[i] + 1].reward],
                     dones       |-> [i \in 1..Len(idx) |-> ToUint8(buf[idx[i] + 1].done)],
                     next_states |-> [i \in 1..Len(idx) |-> buf[idx[i] + 1].new_state]]]

\* a sample that returns as many items as there are when asked for more
SampleClamped(buf, n) ==
    LET k == IF n > Len(buf) THEN Len(buf) ELSE n
    IN  {Unzip(buf, idx) : idx \in Choice(Len(buf), k)}

\* ExperienceBuffer.sample(batch_size): every outcome the call can have
SampleOutcomes(buf, n) ==
    IF ChoiceRaises(Len(buf), n)
    THEN {[err |-> [type |-> "ValueError", raisedBy |-> "numpy.random.choice"],
           batch |-> NoBatch]}
    ELSE {Unzip(buf, idx) : idx \in Choice(Len(buf), n)}

\* a few experiences to append to a buffer on its own
SomeExperiences ==
    {Experience(0, 0, 1, FALSE, 1), Experience(1, 1, 0, FALSE, 2),
     Experience(2, 0, -1, TRUE, 1)}

BufferAppend(x) ==
    /\ Len(appended) < MaxAppends
    /\ buffer' = DequeAppend(buffer, capacity, x)
    /\ appended' = Append(appended, x)
    /\ lastOp' = [op |-> "append", n |-> 0]
    /\ err' = NoErr
    /\ UNCHANGED <<capacity, batch>>

\* a sample that consumes the oldest transition
BufferSamplePops(n) ==
    /\ \E out \in SampleOutcomes(buffer, n) :
          /\ batch' = out.batch
          /\ err' = out.err
    /\ buffer' = IF buffer = <<>> THEN buffer ELSE Tail(buffer)
    /\ lastOp' = [op |-> "sample", n |-> n]
    /\ UNCHANGED <<capacity, appended>>

BufferSample(n) ==
    /\ \E out \in SampleOutcomes(buffer, n) :
          /\ batch' = out.batch
          /\ err' = out.err
    /\ lastOp' = [op |-> "sample", n |-> n]
    /\ UNCHANGED <<capacity, buffer, appended>>

InitRest ==
    /\ batch = NoBatch /\ err = NoErr /\ lastOp = NoOp /\ appended = <<>>
    /\ expected = <<>> /\ loss_t = NoLoss
    /\ frame_idx = 0 /\ epsilon = EPSILON_START_PCT * EPSILON_DECAY_LAST_FRAME
    /\ total_rewards = <<>> /\ best_m_reward = <<>> /\ saved = <<>>
    /\ events = <<>> /\ pc = "loop"
    /\ hyper = [batch_size |-> BATCH_SIZE, decay |-> EPSILON_DECAY_LAST_FRAME]

\* no agent, no networks
InitNoAgent ==
    /\ state = 0 /\ total_reward = 0 /\ done_reward = <<>>
    /\ env = [obs |-> 0, episode |-> <<>>, fresh |-> TRUE]
    /\ step_out = NoStep
    /\ net = 0 /\ tgt_net = 0

\* ExperienceBuffer(capacity), lines 52-53
InitBuffer ==
    /\ capacity \in 0..MaxCapacity
    /\ buffer = <<>>
    /\ InitRest /\ InitNoAgent

NextBuffer ==
    \/ \E x \in SomeExperiences :
          BufferAppend(x) /\ UNCHANGED <<agentVars, netVars, lossVars, loopVars>>
    \/ \E n \in 0..MaxSample :
          BufferSample(n) /\ UNCHANGED <<agentVars, netVars, lossVars, loopVars>>

SpecBuffer == InitBuffer /\ [][NextBuffer]_vars

\* the last k items of s, oldest first
LastN(s, k) ==
    IF Len(s) <= k THEN s ELSE SubSeq(s, Len(s) - k + 1, Len(s))

\* b holds, at pairwise distinct positions of buf, the transitions of buf
\* whose five fields are b's columns
DrawnFrom(b, buf, n) ==
    /\ Len(b.states) = n /\ Len(b.actions) = n /\ Len(b.rewards) = n
    /\ Len(b.dones) = n /\ Len(b.next_states) = n
    /\ \E pos \in [1..n -> 1..Len(buf)] :
          /\ Injective(pos)
          /\ \A i \in 1..n :
                /\ b.states[i] = buf[pos[i]].state
                /\ b.actions[i] = buf[pos[i]].action
                /\ b.rewards[i] = buf[pos[i]].reward
                /\ b.dones[i] = ToUint8(buf[pos[i]].done)
                /\ b.next_states[i] = buf[pos[i]].new_state

(* C1: whatever the appends, the occupancy never exceeds the capacity and *)
(* the buffer holds exactly the last `capacity` appended items, oldest    *)
(* first: an append on a full buffer evicts the oldest item (FIFO).       *)
C1_CapacityFifo ==
    /\ Len(buffer) <= capacity
    /\ buffer = LastN(appended, capacity)

C1_Witness ==
    /\ capacity >= 2
    /\ Len(appended) >= capacity + 2
    /\ Len(buffer) = capacity
    /\ appended[1] # appended[Len(appended) - capacity + 1]

(* C2 as amended: sample(n) with 1 <= n <= occupancy raises nothing and   *)
(* returns exactly n elements, taken from n pairwise distinct positions   *)
(* of the buffer as it is at the call.                                    *)
C2_SampleDistinct ==
    (lastOp.op = "sample" /\ 1 <= lastOp.n /\ lastOp.n <= Len(buffer))
        => (err = NoErr /\ DrawnFrom(batch, buffer, lastOp.n))

(* C2 as stated: sample(n) with n <= occupancy returns exactly n elements *)
(* from n pairwise distinct positions of the buffer, n = 0 included.      *)
C2_Original ==
    (lastOp.op = "sample" /\ lastOp.n <= Len(buffer))
        => (err = NoErr /\ DrawnFrom(batch, buffer, lastOp.n))

C2_Witness ==
    /\ lastOp.op = "sample" /\ lastOp.n = 2 /\ Len(buffer) = 3
    /\ err = NoErr /\ Len(batch.states) = 2
    /\ buffer[1] # buffer[2] /\ buffer[2] # buffer[3] /\ buffer[1] # buffer[3]

----------------------------------------------------------------------------
(* The environment: reset() -> (state, info) and                           *)
(* step(action) -> (state, reward, terminated, truncated, info).  It keeps *)
(* the rewards it has given since its last reset.                          *)

EnvAfterReset(o) == [obs |-> o, episode |-> <<>>, fresh |-> TRUE]

EnvAfterStep(e, ns, r) ==
    [obs |-> ns, episode |-> Append(e.episode, r), fresh |-> FALSE]

\* every (action, new_state, reward, terminated, truncated) a step can give
StepOutputs(W, action) ==
    [action : {action}, new_state : W.stepObs, reward : W.rewards,
     terminated : BOOLEAN, truncated : BOOLEAN]

----------------------------------------------------------------------------
(* Agent, lines 74-111.                                                    *)

\* the exploration probability is kept as its numerator over EpsilonOne
EpsilonOne == 100 * EPSILON_DECAY_LAST_FRAME

\* net(state_v), line 96: one value per action
Forward(p, s, acts) == [a \in acts |-> Q(p, s, a)]

\* torch.max(q_vals_v, dim=1), line 97: the index of the first maximum
ArgMax(q) ==
    CHOOSE a \in DOMAIN q :
        /\ \A b \in DOMAIN q : q[b] <= q[a]
        /\ \A b \in DOMAIN q : (b < a) => (q[b] < q[a])

\* lines 91-98: np.random.random() lies in [0, 1), so the random action is
\* possible when epsilon > 0 and the greedy one when epsilon < 1
ChosenActions(p, s, eps, acts) ==
    (IF eps > 0 THEN acts ELSE {})
        \cup (IF eps < EpsilonOne THEN {ArgMax(Forward(p, s, acts))} ELSE {})

\* an agent that takes a truncated episode for a finished one
IsDoneOrTruncated(out) == out.terminated \/ out.truncated

\* an agent that stores the truncated flag
IsDoneTruncatedOnly(out) == out.truncated

\* line 103: is_done = terminated
IsDone(out) == out.terminated

\* play_step, lines 86-111: every outcome of one call, as the values the
\* agent, the environment and the buffer have after it
PlayStepOutcomes(W, p, eps) ==
    UNION {
      UNION {
        LET total == total_reward + out.reward
            exp == Experience(state, out.action, out.reward, IsDone(out),
                              out.new_state)
            stepped == EnvAfterStep(env, out.new_state, out.reward)
        IN  IF IsDone(out)
            THEN {[state |-> o, total_reward |-> 0, done_reward |-> <<total>>,
                   env |-> EnvAfterReset(o), step_out |-> out, exp |-> exp,
                   buffer |-> DequeAppend(buffer, capacity, exp)]
                  : o \in W.resetObs}
            ELSE {[state |-> out.new_state, total_reward |-> total,
                   done_reward |-> <<>>, env |-> stepped, step_out |-> out,
                   exp |-> exp,
                   buffer |-> DequeAppend(buffer, capacity, exp)]}
        : out \in StepOutputs(W, action)}
      : action \in ChosenActions(p, state, eps, W.actions)}

\* an agent that does not advance its state after a step (line 107 left out)
BecomesWithoutAdvance(r) ==
    /\ state' = (IF r.done_reward # <<>> THEN r.state ELSE state)
    /\ total_reward' = r.total_reward
    /\ done_reward' = r.done_reward /\ env' = r.env /\ step_out' = r.step_out
    /\ buffer' = r.buffer /\ appended' = Append(appended, r.exp)

\* the values of the agent, the environment and the buffer become those of r
Becomes(r) ==
    /\ state' = r.state /\ total_reward' = r.total_reward
    /\ done_reward' = r.done_reward /\ env' = r.env /\ step_out' = r.step_out
    /\ buffer' = r.buffer /\ appended' = Append(appended, r.exp)

AgentPlayStep(eps) ==
    /\ Len(appended) < MaxSteps
    /\ \E r \in PlayStepOutcomes(AgentWorld, net, eps) : Becomes(r)
    /\ lastOp' = [op |-> "append", n |-> 0]
    /\ err' = NoErr
    /\ UNCHANGED <<capacity, batch, netVars, lossVars, loopVars>>

\* Agent(env, exp_buffer), lines 75-83: the constructor resets
InitAgent(W) ==
    /\ \E o \in W.resetObs : state = o /\ env = EnvAfterReset(o)
    /\ total_reward = 0 /\ done_reward = <<>> /\ step_out = NoStep

InitAgentSpec ==
    /\ capacity = 2 /\ buffer = <<>>
    /\ InitRest /\ InitAgent(AgentWorld)
    /\ net \in Nets /\ tgt_net = net

\* epsilon = 0 (the default of play_step), 1/2 and 1
NextAgent ==
    \E eps \in {0, EpsilonOne \div 2, EpsilonOne} : AgentPlayStep(eps)

SpecAgent == InitAgentSpec /\ [][NextAgent]_vars

(* C4: play_step returns the episode reward exactly on the call whose     *)
(* step is terminated, and None on every other call, a truncated step     *)
(* included; the value is the sum of the rewards given since the last     *)
(* reset, resets happen exactly on terminated steps, and after one the    *)
(* accumulator is zero, so the next episode accumulates from zero.        *)
C4_EpisodeReward ==
    [][(appended' # appended) =>
          /\ (done_reward' # <<>>) <=> step_out'.terminated
          /\ env'.fresh <=> step_out'.terminated
          /\ step_out'.terminated =>
                /\ done_reward' = <<SumSeq(env.episode) + step_out'.reward>>
                /\ total_reward' = 0
                /\ env'.episode = <<>> /\ state' = env'.obs
          /\ ~step_out'.terminated =>
                /\ total_reward' = SumSeq(env.episode) + step_out'.reward
                /\ env'.episode = Append(env.episode, step_out'.reward)]_vars

\* a two-step episode has ended with reward 2, and the first step of the
\* next episode, truncated and not terminated, returned None and left the
\* accumulator at its own reward
C4_Witness ==
    /\ Len(appended) = 3
    /\ ~appended[1].done /\ appended[2].done /\ ~appended[3].done
    /\ appended[1].reward = 1 /\ appended[2].reward = 1
    /\ appended[3].reward = 1
    /\ total_reward = 1 /\ done_reward = <<>> /\ ~env.fresh
    /\ step_out.truncated

(* C9: the done flag of the transition play_step appends is the           *)
(* environment's terminated flag, whatever truncated is.                  *)
C9_DoneIsTerminated ==
    (Len(appended) > 0) =>
        /\ appended[Len(appended)].done = step_out.terminated
        /\ buffer[Len(buffer)] = appended[Len(appended)]

C9_Witness ==
    /\ Len(appended) > 0
    /\ step_out.truncated /\ ~step_out.terminated
    /\ buffer[Len(buffer)].done = FALSE

----------------------------------------------------------------------------
(* calc_loss, lines 114-134.                                               *)

MaxOf(S) == CHOOSE x \in S : \A y \in S : y <= x

\* torch.BoolTensor(dones), line 123
ToBool(u) == u # 0

\* a target that bootstraps from terminal transitions too
NextStateValueUnmasked(p_tgt, ns, d, acts) ==
    MaxOf({Q(p_tgt, ns, a) : a \in acts})

\* lines 128-129: tgt_net(next_states_v).max(1)[0], set to 0.0 where the
\* done mask holds
NextStateValue(p_tgt, ns, d, acts) ==
    IF ToBool(d) THEN 0 ELSE MaxOf({Q(p_tgt, ns, a) : a \in acts})

\* line 132: next_state_values * GAMMA + rewards_v, as numerators over
\* GAMMA_DEN
ExpectedValues(b, p_tgt, acts) ==
    [i \in 1..Len(b.rewards) |->
        NextStateValue(p_tgt, b.next_states[i], b.dones[i], acts) * GAMMA_NUM
            + b.rewards[i] * GAMMA_DEN]

\* lines 125-126: net(states_v) gathered at the actions taken
StateActionValues(b, p_net) ==
    [i \in 1..Len(b.states) |-> Q(p_net, b.states[i], b.actions[i])]

\* lines 133-134: nn.MSELoss, the mean of the squared differences
MSELoss(sav, exp) ==
    [num |-> SumSeq([i \in 1..Len(sav) |->
                        (sav[i] * GAMMA_DEN - exp[i]) * (sav[i] * GAMMA_DEN - exp[i])]),
     den |-> Len(sav) * GAMMA_DEN * GAMMA_DEN]

CalcLoss(b, p_net, p_tgt, acts) ==
    MSELoss(StateActionValues(b, p_net), ExpectedValues(b, p_tgt, acts))

\* the batches of n transitions over the values of W, as sample returns them
Batches(W, n) ==
    [states : [1..n -> {0}], actions : [1..n -> W.actions],
     rewards : [1..n -> W.rewards], dones : [1..n -> {0, 1}],
     next_states : [1..n -> W.stepObs]]

DoCalcLoss ==
    /\ expected = <<>>
    /\ expected' = ExpectedValues(batch, tgt_net, LossWorld.actions)
    /\ loss_t' = CalcLoss(batch, net, tgt_net, LossWorld.actions)
    /\ UNCHANGED <<bufVars, agentVars, netVars, loopVars>>

InitLoss ==
    /\ capacity = 0 /\ buffer = <<>> /\ err = NoErr /\ lastOp = NoOp
    /\ appended = <<>>
    /\ \E n \in 1..MaxLossBatch : batch \in Batches(LossWorld, n)
    /\ InitAgent(LossWorld)
    /\ net = 0 /\ tgt_net \in Nets
    /\ expected = <<>> /\ loss_t = NoLoss
    /\ frame_idx = 0 /\ epsilon = EPSILON_START_PCT * EPSILON_DECAY_LAST_FRAME
    /\ total_rewards = <<>> /\ best_m_reward = <<>> /\ saved = <<>>
    /\ events = <<>> /\ pc = "loop"
    /\ hyper = [batch_size |-> BATCH_SIZE, decay |-> EPSILON_DECAY_LAST_FRAME]

NextLoss == DoCalcLoss

SpecLoss == InitLoss /\ [][NextLoss]_vars

(* C10: for every index i of the batch with dones[i] set, the Bellman     *)
(* target is exactly rewards[i], whatever next_states[i] and the target   *)
(* network give; for every other i it is                                  *)
(* rewards[i] + GAMMA * max_a tgt_net(next_states[i])[a].                 *)
C10_TerminalTarget ==
    (expected # <<>>) =>
        /\ Len(expected) = Len(batch.rewards)
        /\ \A i \in 1..Len(batch.rewards) :
              IF batch.dones[i] = 1
              THEN expected[i] = batch.rewards[i] * GAMMA_DEN
              ELSE \E a \in LossWorld.actions :
                      /\ \A c \in LossWorld.actions :
                            Q(tgt_net, batch.next_states[i], c)
                                <= Q(tgt_net, batch.next_states[i], a)
                      /\ expected[i] = batch.rewards[i] * GAMMA_DEN
                            + GAMMA_NUM * Q(tgt_net, batch.next_states[i], a)

\* a batch with a terminal transition whose next state the target network
\* values above zero, and a non-terminal one
C10_Witness ==
    /\ expected # <<>> /\ Len(expected) = 2
    /\ batch.dones[1] = 1 /\ batch.dones[2] = 0
    /\ Q(tgt_net, batch.next_states[1], 0) > 0
    /\ expected[1] = batch.rewards[1] * GAMMA_DEN
    /\ expected[2] # batch.rewards[2] * GAMMA_DEN

----------------------------------------------------------------------------
(* The training loop of __main__, lines 156-209.  One Tick is one          *)
(* iteration of `while True`.                                              *)

\* a schedule that keeps decaying below EPSILON_FINAL
EpsilonNoFloor(f) ==
    EPSILON_START_PCT * EPSILON_DECAY_LAST_FRAME - 100 * f

\* lines 169-170, as a numerator over EpsilonOne
Epsilon(f) ==
    LET floor == EPSILON_FINAL_PCT * EPSILON_DECAY_LAST_FRAME
        line == EPSILON_START_PCT * EPSILON_DECAY_LAST_FRAME - 100 * f
    IN  IF floor >= line THEN floor ELSE line

\* np.mean, line 178, as (sum, count)
Mean(seq) == [sum |-> SumSeq(seq), n |-> Len(seq)]

\* a <= b for two means
MeanLessOrEqual(a, b) == a.sum * b.n <= b.sum * a.n

\* a < b for two means
MeanLess(a, b) == a.sum * b.n < b.sum * a.n

\* a loop that also stops when the mean only reaches the bound
SolvedAtBound(m) == m.sum >= MEAN_REWARD_BOUND * m.n

\* line 195: m_reward > MEAN_REWARD_BOUND
Solved(m) == m.sum > MEAN_REWARD_BOUND * m.n

\* a loop that leaves warm-up one transition early
InWarmupOneEarly(buf) == Len(buf) < REPLAY_START_SIZE - 1

\* a loop without a warm-up
InWarmupNever(buf) == FALSE

\* a loop that trains as soon as the buffer holds anything
InWarmupUntilOne(buf) == Len(buf) < 1

\* line 199: len(buffer) < REPLAY_START_SIZE
InWarmup(buf) == Len(buf) < REPLAY_START_SIZE

\* a loop that synchronises one step late
SyncDueLate(f) == f % SYNC_TARGET_FRAMES = 1

\* line 202: frame_idx % SYNC_TARGET_FRAMES == 0
SyncDue(f) == f % SYNC_TARGET_FRAMES = 0

\* lines 195-197 (break) and 199-200 (continue): nothing but the agent's
\* step was done on this tick
StepOnly(next_pc) ==
    /\ pc' = next_pc
    /\ events' = <<"play_step">>
    /\ lastOp' = [op |-> "append", n |-> 0]
    /\ err' = NoErr
    /\ UNCHANGED <<capacity, batch, netVars, lossVars>>

\* a loop that copies into the target network after the update instead of
\* before the sample
TrainSyncAfter(f, buf) ==
    /\ lastOp' = [op |-> "sample", n |-> hyper.batch_size]
    /\ \E out \in SampleOutcomes(buf, hyper.batch_size) :
          /\ batch' = out.batch
          /\ err' = out.err
          /\ out.err = NoErr
          /\ pc' = pc
          /\ events' = <<"play_step", "zero_grad", "sample", "calc_loss",
                         "backward", "step">>
                        \o (IF SyncDue(f) THEN <<"load_state_dict">> ELSE <<>>)
          /\ expected' = ExpectedValues(out.batch, tgt_net, LoopWorld.actions)
          /\ loss_t' = CalcLoss(out.batch, net, tgt_net, LoopWorld.actions)
          /\ \E p \in Nets :
                /\ net' = p
                /\ tgt_net' = IF SyncDue(f) THEN p ELSE tgt_net
    /\ UNCHANGED capacity

\* lines 202-209; buf is the buffer after the agent's step
Train(f, buf) ==
    LET tgt == IF SyncDue(f) THEN net ELSE tgt_net
        pre == IF SyncDue(f) THEN <<"play_step", "load_state_dict">>
               ELSE <<"play_step">>
    IN  /\ tgt_net' = tgt
        /\ lastOp' = [op |-> "sample", n |-> hyper.batch_size]
        /\ \E out \in SampleOutcomes(buf, hyper.batch_size) :
              /\ batch' = out.batch
              /\ err' = out.err
              /\ IF out.err # NoErr
                 THEN /\ pc' = "crashed"
                      /\ events' = pre \o <<"zero_grad", "sample">>
                      /\ UNCHANGED <<net, lossVars>>
                 ELSE /\ pc' = pc
                      /\ events' = pre \o <<"zero_grad", "sample", "calc_loss",
                                            "backward", "step">>
                      /\ expected' = ExpectedValues(out.batch, tgt,
                                                    LoopWorld.actions)
                      /\ loss_t' = CalcLoss(out.batch, net, tgt,
                                            LoopWorld.actions)
                      /\ \E p \in Nets : net' = p
        /\ UNCHANGED capacity

\* lines 169-170 with EPSILON_DECAY_LAST_FRAME = 0: the division raises and
\* the loop ends before the agent's first step
EpsilonRaises ==
    /\ pc' = "crashed"
    /\ err' = [type |-> "ZeroDivisionError", raisedBy |-> "epsilon"]
    /\ events' = <<>>
    /\ UNCHANGED <<capacity, buffer, batch, lastOp, appended, agentVars,
                   netVars, lossVars, epsilon, total_rewards, best_m_reward,
                   saved>>

\* one iteration of the while loop, lines 167-209
Tick ==
    /\ pc = "loop"
    /\ frame_idx < MaxFrames
    /\ frame_idx' = frame_idx + 1
    /\ UNCHANGED hyper
    /\ IF hyper.decay = 0 THEN EpsilonRaises
       ELSE /\ epsilon' = Epsilon(frame_idx + 1)
            /\ \E r \in PlayStepOutcomes(LoopWorld, net, Epsilon(frame_idx + 1)) :
                  LET completed == r.done_reward # <<>>
                      rewards == IF completed
                                 THEN Append(total_rewards, r.done_reward[1])
                                 ELSE total_rewards
                      m_reward == Mean(LastN(rewards, MEAN_WINDOW))
                      improved == completed /\ (\/ best_m_reward = <<>>
                                                \/ MeanLess(best_m_reward[1], m_reward))
                  IN  /\ Becomes(r)
                      /\ total_rewards' = rewards
                      /\ best_m_reward' = IF improved THEN <<m_reward>> ELSE best_m_reward
                      /\ saved' = IF improved
                                  THEN Append(saved, [params |-> net, mean |-> m_reward])
                                  ELSE saved
                      /\ IF completed /\ Solved(m_reward) THEN StepOnly("done")
                         ELSE IF InWarmup(r.buffer) THEN StepOnly("loop")
                         ELSE Train(frame_idx + 1, r.buffer)

\* lines 147-165
Init ==
    /\ capacity = REPLAY_SIZE /\ buffer = <<>>
    /\ InitRest /\ InitAgent(LoopWorld)
    /\ net \in Nets /\ tgt_net \in Nets

Next == Tick

Spec == Init /\ [][Next]_vars

\* the mean of the last MEAN_WINDOW items of rs is above k
TrailingMeanAbove(rs, k) ==
    LET first == IF Len(rs) > MEAN_WINDOW THEN Len(rs) - MEAN_WINDOW + 1 ELSE 1
        count == Len(rs) - first + 1
    IN  /\ count > 0
        /\ SumSeq(SubSeq(rs, first, Len(rs))) > k * count

(* C5: on a tick after whose environment step the occupancy is below      *)
(* REPLAY_START_SIZE, only the step and its append happen: no sample, no  *)
(* loss, no update of the online network, no copy into the target.        *)
C5_WarmupSkipsTraining ==
    [][(frame_idx' # frame_idx /\ Len(buffer') < REPLAY_START_SIZE) =>
          /\ events' = <<"play_step">>
          /\ Len(appended') = Len(appended) + 1
          /\ batch' = batch /\ expected' = expected /\ loss_t' = loss_t
          /\ net' = net /\ tgt_net' = tgt_net]_vars

C5_Witness ==
    /\ frame_idx = REPLAY_START_SIZE - 1
    /\ Len(buffer) = REPLAY_START_SIZE - 1
    /\ events = <<"play_step">> /\ pc = "loop"
    /\ batch = NoBatch /\ net # tgt_net

(* C6 as amended: the target network's parameters are overwritten with    *)
(* the online network's exactly on the ticks whose frame_idx is a         *)
(* multiple of SYNC_TARGET_FRAMES and that reach training (occupancy at   *)
(* least REPLAY_START_SIZE after the step, the loop not stopping on that  *)
(* tick); on every other tick they stay as they were.                     *)
C6_SyncCadence ==
    [][(frame_idx' # frame_idx) =>
          IF /\ frame_idx' % SYNC_TARGET_FRAMES = 0
             /\ Len(buffer') >= REPLAY_START_SIZE
             /\ pc' # "done"
          THEN tgt_net' = net /\ events'[2] = "load_state_dict"
          ELSE /\ tgt_net' = tgt_net
               /\ \A i \in 1..Len(events') : events'[i] # "load_state_dict"]_vars

C6_Witness ==
    /\ frame_idx = REPLAY_START_SIZE + SYNC_TARGET_FRAMES
    /\ Len(events) > 1 /\ events[2] = "load_state_dict"
    /\ net # tgt_net /\ pc = "loop"

(* C6 as stated: the target's parameters become the online network's at   *)
(* every global step that is a multiple of SYNC_TARGET_FRAMES, and stay   *)
(* fixed at every other step.                                             *)
C6_Original ==
    [][(frame_idx' # frame_idx) =>
          IF frame_idx' % SYNC_TARGET_FRAMES = 0
          THEN tgt_net' = net
          ELSE tgt_net' = tgt_net]_vars

(* C7: the loop stops exactly on the tick on which an episode completes   *)
(* and the mean of the last MEAN_WINDOW episode rewards is above          *)
(* MEAN_REWARD_BOUND; on that tick nothing follows the agent's step, and  *)
(* once stopped nothing happens any more.                                 *)
C7_StopsWhenSolved ==
    [][/\ pc = "loop"
       /\ (pc' = "done") <=>
             /\ done_reward' # <<>>
             /\ TrailingMeanAbove(total_rewards', MEAN_REWARD_BOUND)
       /\ (pc' = "done") =>
             /\ events' = <<"play_step">>
             /\ batch' = batch /\ loss_t' = loss_t
             /\ net' = net /\ tgt_net' = tgt_net]_vars

\* stopped during training, on the second completed episode
C7_Witness ==
    /\ pc = "done"
    /\ frame_idx > REPLAY_START_SIZE
    /\ Len(total_rewards) = 2
    /\ total_rewards[1] <= MEAN_REWARD_BOUND

(* C8: a tick that reaches buffer.sample(BATCH_SIZE) finds at least       *)
(* BATCH_SIZE transitions in the buffer, and the sample raises nothing.   *)
C8_SampleNeverFails ==
    /\ pc # "crashed"
    /\ (lastOp.op = "sample") =>
          /\ Len(buffer) >= BATCH_SIZE
          /\ err = NoErr
          /\ Len(batch.states) = BATCH_SIZE

C8_Witness ==
    /\ lastOp.op = "sample" /\ err = NoErr
    /\ frame_idx = REPLAY_START_SIZE + 1
    /\ Len(batch.states) = BATCH_SIZE /\ loss_t # NoLoss

(* C11: the exploration probability of every tick is                      *)
(* max(EPSILON_FINAL, EPSILON_START - frame_idx / EPSILON_DECAY_LAST_FRAME), *)
(* a function of frame_idx alone; it never rises from one tick to the     *)
(* next and is never below EPSILON_FINAL.                                 *)
C11_EpsilonSchedule ==
    /\ [](/\ epsilon >= EPSILON_FINAL_PCT * EPSILON_DECAY_LAST_FRAME
          /\ epsilon <= EPSILON_START_PCT * EPSILON_DECAY_LAST_FRAME
          /\ \/ epsilon = EPSILON_FINAL_PCT * EPSILON_DECAY_LAST_FRAME
             \/ epsilon = EPSILON_START_PCT * EPSILON_DECAY_LAST_FRAME
                              - 100 * frame_idx
          /\ epsilon >= EPSILON_START_PCT * EPSILON_DECAY_LAST_FRAME
                              - 100 * frame_idx)
    /\ [][epsilon' <= epsilon]_vars

\* the floor has been reached, after ticks on which epsilon decayed
C11_Witness ==
    /\ frame_idx > EPSILON_DECAY_LAST_FRAME
    /\ epsilon = EPSILON_FINAL_PCT * EPSILON_DECAY_LAST_FRAME
    /\ Len(appended) = frame_idx

(* C12: a successful sample(n) leaves the buffer as it was: the same      *)
(* transitions, in the same order, the same occupancy and capacity.       *)
C12_SampleLeavesBuffer ==
    [][(lastOp'.op = "sample" /\ err' = NoErr) =>
          /\ buffer' = buffer
          /\ Len(buffer') = Len(buffer)
          /\ capacity' = capacity]_vars

C12_Witness ==
    /\ lastOp.op = "sample" /\ err = NoErr /\ lastOp.n = 1
    /\ Len(buffer) = capacity /\ capacity = 2
    /\ Len(appended) = 3 /\ buffer = SubSeq(appended, 2, 3)

(* C17: the five sequences sample(n) returns all have length n, and for   *)
(* every index i their i-th elements are the five fields of one stored    *)
(* transition.                                                            *)
C17_BatchAligned ==
    (lastOp.op = "sample" /\ err = NoErr) =>
        /\ Len(batch.states) = lastOp.n /\ Len(batch.actions) = lastOp.n
        /\ Len(batch.rewards) = lastOp.n /\ Len(batch.dones) = lastOp.n
        /\ Len(batch.next_states) = lastOp.n
        /\ \A i \in 1..lastOp.n :
              \E k \in 1..Len(buffer) :
                  /\ batch.states[i] = buffer[k].state
                  /\ batch.actions[i] = buffer[k].action
                  /\ batch.rewards[i] = buffer[k].reward
                  /\ (batch.dones[i] = 1) = buffer[k].done
                  /\ batch.next_states[i] = buffer[k].new_state

\* three different transitions, all sampled
C17_Witness ==
    /\ lastOp.op = "sample" /\ err = NoErr /\ lastOp.n = 3
    /\ Len(batch.states) = 3
    /\ batch.states[1] # batch.states[2] /\ batch.states[2] # batch.states[3]
    /\ batch.states[1] # batch.states[3]

(* C18: the transitions of consecutive play_step calls chain: each one's *)
(* state is the agent's state before the step; after a transition that   *)
(* is not done the next one starts at its new_state, after one that is   *)
(* done the next one starts at the state the environment's reset gave.   *)
C18_TransitionsChain ==
    /\ \A k \in 1..(Len(appended) - 1) :
          IF appended[k].done
          THEN appended[k + 1].state \in AgentWorld.resetObs
          ELSE appended[k + 1].state = appended[k].new_state
    /\ (Len(appended) > 0) =>
          /\ appended[1].state \in AgentWorld.resetObs
          /\ state = env.obs
          /\ IF appended[Len(appended)].done
             THEN env.fresh /\ state \in AgentWorld.resetObs
             ELSE state = appended[Len(appended)].new_state

\* a step to state 2, a terminal step from it, and a step of the next
\* episode from the reset state
C18_Witness ==
    /\ Len(appended) = 3
    /\ appended[1].new_state = 2 /\ ~appended[1].done
    /\ appended[2].state = 2 /\ appended[2].done
    /\ appended[2].new_state = 1
    /\ appended[3].state = 0 /\ state = appended[3].new_state

\* how often e occurs in the sequence s
Occurrences(s, e) == Cardinality({i \in 1..Len(s) : s[i] = e})

\* the sum and the count of the last MEAN_WINDOW items of rs
TrailingSum(rs) == SumSeq(SubSeq(rs, IF Len(rs) > MEAN_WINDOW
                                     THEN Len(rs) - MEAN_WINDOW + 1 ELSE 1,
                                 Len(rs)))
TrailingCount(rs) == IF Len(rs) > MEAN_WINDOW THEN MEAN_WINDOW ELSE Len(rs)

(* C19: every tick increments frame_idx by exactly 1 and appends exactly  *)
(* one transition, so the occupancy after tick t is min(t, REPLAY_SIZE),  *)
(* and it never decreases.                                                *)
C19_OneAppendPerTick ==
    /\ [](/\ Len(appended) = frame_idx
          /\ Len(buffer) = IF frame_idx < REPLAY_SIZE THEN frame_idx
                           ELSE REPLAY_SIZE)
    /\ [][/\ frame_idx' = frame_idx + 1
          /\ Len(appended') = Len(appended) + 1
          /\ Len(buffer') >= Len(buffer)]_vars

\* two ticks after the buffer filled up
C19_Witness ==
    /\ frame_idx = REPLAY_SIZE + 2
    /\ Len(buffer) = REPLAY_SIZE
    /\ buffer[1] = appended[3]

(* C14 as stated: the loop never stops as solved on a tick whose buffer    *)
(* occupancy is still below the warm-up threshold.                        *)
C14_Original == pc = "done" => Len(buffer) >= REPLAY_START_SIZE

(* C14 as amended: warm-up ticks come first and training ticks after      *)
(* them: once the occupancy has reached REPLAY_START_SIZE every later     *)
(* tick either trains or stops the loop, and only ticks at such an        *)
(* occupancy train. The loop stops only on a tick that completed an       *)
(* episode with the trailing mean above MEAN_REWARD_BOUND, and that tick  *)
(* may come after training ticks or directly after warm-up ticks; after   *)
(* the stop nothing changes.                                              *)
C14_StateOrder ==
    /\ []("sample" \in {events[i] : i \in 1..Len(events)} =>
            Len(buffer) >= REPLAY_START_SIZE)
    /\ [][/\ Len(buffer) >= REPLAY_START_SIZE =>
               /\ Len(buffer') >= REPLAY_START_SIZE
               /\ \/ pc' = "done"
                  \/ Occurrences(events', "sample") = 1
          /\ pc' = "done" =>
               /\ pc = "loop"
               /\ done_reward' # <<>>
               /\ events' = <<"play_step">>
               /\ TrailingSum(total_rewards') >
                    MEAN_REWARD_BOUND * TrailingCount(total_rewards')
          /\ pc = "done" => FALSE]_vars

\* the loop stopped as solved before the warm-up was over
C14_Witness ==
    /\ pc = "done"
    /\ Len(buffer) < REPLAY_START_SIZE
    /\ batch = NoBatch

(* C15: the online network's parameters are saved exactly on the ticks    *)
(* that complete an episode and whose trailing mean is strictly greater   *)
(* than the best one recorded so far (or that complete the first          *)
(* episode); what is saved is the online network as it is at that point.  *)
(* best_m_reward never decreases and is always the maximum of the         *)
(* trailing means observed so far, one per completed episode.             *)
C15_SaveOnImprovement ==
    /\ [](/\ (best_m_reward = <<>>) = (total_rewards = <<>>)
          /\ (saved = <<>>) = (total_rewards = <<>>)
          /\ best_m_reward # <<>> =>
               /\ saved[Len(saved)].mean = best_m_reward[1]
               /\ \A k \in 1..Len(total_rewards) :
                     TrailingSum(SubSeq(total_rewards, 1, k)) * best_m_reward[1].n
                       <= best_m_reward[1].sum
                            * TrailingCount(SubSeq(total_rewards, 1, k))
               /\ \E k \in 1..Len(total_rewards) :
                     TrailingSum(SubSeq(total_rewards, 1, k)) * best_m_reward[1].n
                       = best_m_reward[1].sum
                           * TrailingCount(SubSeq(total_rewards, 1, k)))
    /\ [][LET better ==
                /\ done_reward' # <<>>
                /\ \/ best_m_reward = <<>>
                   \/ best_m_reward[1].sum * TrailingCount(total_rewards')
                        < TrailingSum(total_rewards') * best_m_reward[1].n
          IN  /\ (saved' # saved) = better
              /\ (best_m_reward' # best_m_reward) = better
              /\ better =>
                   /\ saved' = Append(saved, [params |-> net,
                                              mean |-> best_m_reward'[1]])
                   /\ best_m_reward'[1].sum = TrailingSum(total_rewards')
                   /\ best_m_reward'[1].n = TrailingCount(total_rewards')
              /\ best_m_reward # <<>> =>
                   best_m_reward'[1].sum * best_m_reward[1].n
                     >= best_m_reward[1].sum * best_m_reward'[1].n]_vars

\* two checkpoints, then an episode whose trailing mean only equals the best
C15_Witness ==
    /\ Len(total_rewards) = 3
    /\ Len(saved) = 2
    /\ done_reward # <<>>
    /\ TrailingSum(total_rewards) * best_m_reward[1].n
         = best_m_reward[1].sum * TrailingCount(total_rewards)

(* C16: every tick that trains performs exactly one sample and exactly    *)
(* one update of the online network. When its frame_idx is a multiple of  *)
(* SYNC_TARGET_FRAMES the copy into the target network comes before the   *)
(* sample, the loss and the update, so the targets and the loss of that   *)
(* tick are computed with the online parameters as they were when the     *)
(* tick began; otherwise they are computed with the target parameters as  *)
(* they were, and these stay.                                             *)
C16_SyncBeforeUpdate ==
    [][(frame_idx' # frame_idx /\ pc' = "loop"
          /\ Len(buffer') >= REPLAY_START_SIZE) =>
          /\ Occurrences(events', "sample") = 1
          /\ Occurrences(events', "step") = 1
          /\ Len(batch'.states) = BATCH_SIZE
          /\ IF frame_idx' % SYNC_TARGET_FRAMES = 0
             THEN /\ events' = <<"play_step", "load_state_dict", "zero_grad",
                                 "sample", "calc_loss", "backward", "step">>
                  /\ expected' = ExpectedValues(batch', net, LoopWorld.actions)
                  /\ loss_t' = CalcLoss(batch', net, net, LoopWorld.actions)
                  /\ tgt_net' = net
             ELSE /\ events' = <<"play_step", "zero_grad", "sample",
                                 "calc_loss", "backward", "step">>
                  /\ expected' = ExpectedValues(batch', tgt_net,
                                                LoopWorld.actions)
                  /\ loss_t' = CalcLoss(batch', net, tgt_net,
                                        LoopWorld.actions)
                  /\ tgt_net' = tgt_net]_vars

\* a sync tick after which the online network has moved away from the copy,
\* and whose targets differ from those the old target network would give
C16_Witness ==
    /\ frame_idx = REPLAY_START_SIZE + SYNC_TARGET_FRAMES
    /\ events[2] = "load_state_dict"
    /\ net # tgt_net
    /\ \E p \in Nets :
          /\ p # tgt_net
          /\ expected # ExpectedValues(batch, p, LoopWorld.actions)

(* C20: no loss is computed against a target network that was never       *)
(* copied from the online network: the first tick that trains is tick     *)
(* REPLAY_START_SIZE, it is a sync tick, and its copy precedes its sample *)
(* and update; every later loss follows that copy.                        *)
C20_FirstTrainingSyncs ==
    [][Occurrences(events', "calc_loss") > 0 =>
          \/ /\ frame_idx' = REPLAY_START_SIZE
             /\ frame_idx' % SYNC_TARGET_FRAMES = 0
             /\ events'[2] = "load_state_dict"
             /\ tgt_net' = net
             /\ batch = NoBatch
          \/ /\ frame_idx' > REPLAY_START_SIZE
             /\ batch # NoBatch]_vars

\* the first training tick
C20_Witness ==
    /\ frame_idx = REPLAY_START_SIZE
    /\ loss_t # NoLoss
    /\ Len(events) = 7

(* Start-up with hyper-parameters that are not positive.                  *)

InvalidCapacities == {-1, 0}

\* lines 147-165 with at least one of REPLAY_SIZE, BATCH_SIZE and
\* EPSILON_DECAY_LAST_FRAME not positive. deque(maxlen=capacity), line 53,
\* raises ValueError for a negative capacity and accepts 0; nothing looks at
\* BATCH_SIZE or EPSILON_DECAY_LAST_FRAME before the loop.
InitConfig ==
    /\ capacity \in InvalidCapacities \cup {REPLAY_SIZE}
    /\ hyper \in [batch_size : {0, BATCH_SIZE},
                  decay : {0, EPSILON_DECAY_LAST_FRAME}]
    /\ \/ capacity <= 0
       \/ hyper.batch_size <= 0
       \/ hyper.decay <= 0
    /\ buffer = <<>> /\ batch = NoBatch /\ lastOp = NoOp /\ appended = <<>>
    /\ expected = <<>> /\ loss_t = NoLoss
    /\ frame_idx = 0 /\ epsilon = EPSILON_START_PCT * EPSILON_DECAY_LAST_FRAME
    /\ total_rewards = <<>> /\ best_m_reward = <<>> /\ saved = <<>>
    /\ events = <<>>
    /\ net \in Nets /\ tgt_net \in Nets
    /\ IF capacity < 0
       THEN /\ pc = "crashed"
            /\ err = [type |-> "ValueError", raisedBy |-> "deque"]
            /\ state = 0 /\ total_reward = 0 /\ done_reward = <<>>
            /\ env = [obs |-> 0, episode |-> <<>>, fresh |-> TRUE]
            /\ step_out = NoStep
       ELSE /\ pc = "loop"
            /\ err = NoErr
            /\ InitAgent(LoopWorld)

NextConfig == Tick

SpecConfig == InitConfig /\ [][NextConfig]_vars

(* C13 as stated: with a replay capacity, a batch size or an epsilon      *)
(* decay horizon that is not positive, the program stops before the loop  *)
(* begins, so that no tick of the loop is ever executed: no environment   *)
(* step is taken and nothing is appended to the buffer.                   *)
C13_Original ==
    (capacity <= 0 \/ hyper.batch_size <= 0 \/ hyper.decay <= 0) =>
        /\ appended = <<>>
        /\ step_out = NoStep

====
